---- MODULE Spec2Model ----
\* Verification model of the JZ-Training-demo prototypes:
\*   - the chat loops of sse_client.main and independent_client.MCPClient.chat_loop
\*   - check_tool_call, summarize_document's tag extraction,
\*   - client.MCPClient.connect_to_server,
\*   - data_pop.DatabaseConnection (metadata methods, execute_query),
\*   - data_pop.fake_data_generator.generate_fake_property,
\*   - data_pop.DatabasePopulator (create_query's format_value, populate_table).
EXTENDS Integers, Sequences, FiniteSets, TLC

\* ---------------------------------------------------------------------
\* Bounds of the model
\* ---------------------------------------------------------------------
MaxBlocks == 2
MaxModelCalls == 3
MaxUserLines == 2
MaxContent == 3
MaxTextLen == 4
MaxPathLen == 4
MaxConnections == 3

\* ---------------------------------------------------------------------
\* State
\* ---------------------------------------------------------------------
VARIABLES
  prog,             \* which script runs: "sse" (sse_client) or "ind" (independent_client)
  pc,               \* position of the script
  messages,         \* the transcript list of the chat loop
  user_message,     \* local user_message
  document_content, \* local document_content
  llm_response,     \* last response object of the model API
  tool_call,        \* last value returned by check_tool_call
  inflight,         \* requests issued whose response has not been received
  sent,             \* the messages argument of the latest model call
  history,          \* ghost: user messages sent to / replies received from the model, in order
  invoked,          \* ghost: the (name, input) of every session.call_tool issued
  toolUses,         \* ghost: number of responses received with stop_reason tool_use
  nCalls,           \* number of model calls issued
  nLines,           \* number of user lines read after the first
  clock,            \* ghost: number of chat events that occurred so far
  time_format_24hr  \* MCPClient.time_format_24hr

chatVars == <<prog, pc, messages, user_message, document_content, llm_response,
              tool_call, inflight, sent, history, invoked, toolUses, nCalls,
              nLines, clock, time_format_24hr>>

\* State of the other units of the repository, each exercised by its own
\* specification below.
VARIABLES
  ctc_pc, response, ctc_result,          \* check_tool_call: input and returned value
  ctc_printed, ctc_next,                 \* what the call printed, where main goes after it
  sum_pc, reply_text, summary,           \* summarize_document: reply text and result
  conn_pc, server_script_path, exit_stack, session, tools, raised, cleanups,
                                          \* client.MCPClient.connect_to_server
  db_pc, connection_string, conns, self_connection, db_result,
                                          \* data_pop DatabaseConnection
  printed,                                \* lines the latest call printed
  executed,                               \* ghost: queries the server executed and committed
  db_error,                               \* ghost: pyodbc.Error raised inside the latest call
  fetched_rows                            \* ghost: rows cursor.fetchall returned in the latest call

ctcVars == <<ctc_pc, response, ctc_result, ctc_printed, ctc_next>>
sumVars == <<sum_pc, reply_text, summary>>
connVars == <<conn_pc, server_script_path, exit_stack, session, tools, raised, cleanups>>
dbVars == <<db_pc, connection_string, conns, self_connection, db_result,
           printed, executed, db_error, fetched_rows>>


\* State of the data_pop units that generate, format and insert fake rows.
VARIABLES
  gen_pc, property_type, nullable, max_length, fake_property,
                                          \* fake_data_generator.generate_fake_property
  fmt_pc, raw_value, col_name, formatted, \* create_query's format_value
  pop_pc, num_rows, cols, rows, col_headers, mark
                                          \* DatabasePopulator.populate_table

genVars == <<gen_pc, property_type, nullable, max_length, fake_property>>
fmtVars == <<fmt_pc, raw_value, col_name, formatted>>
popVars == <<pop_pc, num_rows, cols, rows, col_headers, mark>>
dataVars == <<genVars, fmtVars, popVars>>

vars == <<chatVars, ctcVars, sumVars, connVars, dbVars, dataVars>>

\* Values of the units a specification does not exercise
UnsetVal == [type |-> "unset", text |-> <<>>, name |-> "", input |-> ""]
NoSummary == [raised |-> "none", value |-> <<>>]
IdleChat ==
  /\ prog = "none" /\ pc = "idle" /\ messages = <<>> /\ user_message = <<>>
  /\ document_content = <<>> /\ llm_response = [stop_reason |-> "", content |-> <<>>]
  /\ tool_call = UnsetVal /\ inflight = {} /\ sent = <<>> /\ history = <<>>
  /\ invoked = <<>> /\ toolUses = 0 /\ nCalls = 0 /\ nLines = 0 /\ clock = 0
  /\ time_format_24hr = TRUE
IdleCtc ==
  /\ ctc_pc = "idle" /\ response = [stop_reason |-> "", content |-> <<>>]
  /\ ctc_result = UnsetVal /\ ctc_printed = <<>> /\ ctc_next = ""
IdleSum == sum_pc = "idle" /\ reply_text = <<>> /\ summary = NoSummary
IdleConn ==
  /\ conn_pc = "idle" /\ server_script_path = <<>> /\ exit_stack = <<>>
  /\ session = "unset" /\ tools = <<>> /\ raised = "none" /\ cleanups = 0
IdleDb ==
  /\ db_pc = "idle" /\ connection_string = <<>> /\ conns = <<>>
  /\ self_connection = 0 /\ db_result = [method |-> "", outcome |-> "", value |-> <<>>]
  /\ printed = <<>> /\ executed = <<>> /\ db_error = "none" /\ fetched_rows = <<>>

\* A Python value handed between the data_pop units: a str, an int, None,
\* or the exception a call raised.
PyVal(t, chars) == [type |-> t, text |-> chars]
IdleGen ==
  /\ gen_pc = "idle" /\ property_type = "" /\ nullable = FALSE
  /\ max_length = <<>> /\ fake_property = PyVal("unset", <<>>)
IdleFmt ==
  /\ fmt_pc = "idle" /\ raw_value = PyVal("unset", <<>>) /\ col_name = ""
  /\ formatted = <<>>
IdlePop ==
  /\ pop_pc = "idle" /\ num_rows = 0 /\ cols = <<>> /\ rows = <<>>
  /\ col_headers = <<>> /\ mark = 0
IdleData == IdleGen /\ IdleFmt /\ IdlePop

\* ---------------------------------------------------------------------
\* Values
\* ---------------------------------------------------------------------
\* Texts are sequences of characters; " " is whitespace.
Texts == { <<"a">>, <<"a", " ">> }

RECURSIVE LStrip(_)
LStrip(s) == IF s # <<>> /\ Head(s) = " " THEN LStrip(Tail(s)) ELSE s

RECURSIVE RStrip(_)
RStrip(s) == IF s # <<>> /\ s[Len(s)] = " " THEN RStrip(SubSeq(s, 1, Len(s) - 1)) ELSE s

\* str.strip()
Strip(s) == RStrip(LStrip(s))

\* Content blocks of a model response.
TextBlock(t) == [type |-> "text", text |-> t, name |-> "", input |-> ""]
ToolUseBlock(n, i) == [type |-> "tool_use", text |-> <<>>, name |-> n, input |-> i]
NoneVal == [type |-> "None", text |-> <<>>, name |-> "", input |-> ""]
FalseVal == [type |-> "False", text |-> <<>>, name |-> "", input |-> ""]

ToolUseBlocks == { ToolUseBlock("summarize_document", "d1"), ToolUseBlock("get_price", "d2") }
Blocks == { TextBlock(t) : t \in Texts } \cup ToolUseBlocks

RECURSIVE SeqsUpTo(_, _)
SeqsUpTo(S, n) ==
  IF n = 0 THEN { <<>> }
  ELSE LET shorter == SeqsUpTo(S, n - 1)
       IN shorter \cup { Append(s, x) : s \in { t \in shorter : Len(t) = n - 1 }, x \in S }

HasToolUse(content) == \E i \in 1..Len(content) : content[i].type = "tool_use"

\* The responses the model API can give: at least one content block, and the
\* stop reason is tool_use exactly when some block is a tool-use block.
Responses ==
  { [stop_reason |-> IF HasToolUse(c) THEN "tool_use" ELSE "end_turn", content |-> c] :
      c \in { s \in SeqsUpTo(Blocks, MaxBlocks) : s # <<>> } }

NoResponse == [stop_reason |-> "", content |-> <<>>]

\* Python truthiness of the value check_tool_call returns
Truthy(v) == v.type \notin {"None", "False"}

\* Lines typed by the user, as sequences of words
UserLines == { <<>>, <<"hi">>, <<"what", "time">>, <<"Switch", "format">> }
Documents == { <<>>, <<"doc">> }
fake_news_story == <<"fake_news_story">>

Msg(role, kind, body, doc, at) ==
  [role |-> role, kind |-> kind, body |-> body, doc |-> doc, at |-> at]

\* s is a subsequence of t (order kept, gaps allowed)
RECURSIVE IsSubseq(_, _)
IsSubseq(s, t) ==
  IF s = <<>> THEN TRUE
  ELSE IF t = <<>> THEN FALSE
  ELSE IF Head(s) = Head(t) THEN IsSubseq(Tail(s), Tail(t))
  ELSE IsSubseq(s, Tail(t))

IsPrefix(s, t) == Len(s) <= Len(t) /\ SubSeq(t, 1, Len(s)) = s

\* ---------------------------------------------------------------------
\* check_tool_call (sse_client.py and independent_client.py, same body)
\* ---------------------------------------------------------------------
\* lines 78-84, the try block: the value it returns or the exception it raises
CheckToolCallTry(resp) ==
  IF resp.stop_reason = "tool_use"
  THEN IF Len(resp.content) >= 2
       THEN [exc |-> "none", value |-> resp.content[2]]  \* response.content[1], zero-based
       ELSE [exc |-> "IndexError", value |-> NoneVal]
  ELSE [exc |-> "none", value |-> FalseVal]

\* an exception leaving check_tool_call, as the value its caller gets
RaisedVal == [type |-> "raise", text |-> <<>>, name |-> "", input |-> ""]

\* check_tool_call without its except clause
check_tool_call_uncaught(resp) ==
  IF CheckToolCallTry(resp).exc # "none" THEN RaisedVal ELSE CheckToolCallTry(resp).value

\* lines 69-88: except Exception returns None
check_tool_call(resp) ==
  IF CheckToolCallTry(resp).exc # "none" THEN NoneVal ELSE CheckToolCallTry(resp).value

\* lines 80 and 87: what the call prints
CheckToolCallPrints(resp) ==
  (IF resp.stop_reason = "tool_use" THEN <<"type is tool_use">> ELSE <<>>)
    \o (IF CheckToolCallTry(resp).exc # "none" THEN <<"Error checking tool call">> ELSE <<>>)

\* llm_response.content[0].text raises when the first block has no text attribute
FirstTextRaises(resp) ==
  Len(resp.content) = 0 \/ resp.content[1].type # "text"

\* tool_call.name / tool_call.input raise when the value is not a tool-use block
ToolAttrRaises(v) == v.type # "tool_use"

\* lines 155-160: where main goes with the value check_tool_call returned
AfterCheck(v) ==
  IF ~Truthy(v) THEN "sse_input"
  ELSE IF ToolAttrRaises(v) THEN "cleanup"
  ELSE "sse_await_tool"

Req(kind, id) == [kind |-> kind, id |-> id]

\* tool lists a server can report
ServerTools == { <<>>, <<"summarize_document">>, <<"summarize_document", "comparison_documents">> }

\* ---------------------------------------------------------------------
\* sse_client.main
\* ---------------------------------------------------------------------
\* The client object of a chat step that does not touch it: raised keeps its
\* value unless the step raised and left the try block
ClientUntouched ==
  /\ (IF pc' = "cleanup" THEN TRUE ELSE raised' = raised)
  /\ UNCHANGED <<conn_pc, server_script_path, exit_stack, session, tools, cleanups>>

ChatLocals == <<prog, messages, user_message, document_content, llm_response,
                tool_call, inflight, sent, history, invoked, toolUses, nCalls,
                nLines, clock, time_format_24hr>>

\* connect_to_server of sse_client.py (lines 24-33) and independent_client.py
\* (lines 47-61), called first in the try block of main.
\* line 29 / 51: enter_async_context(sse_client(server_url))
ClientOpenTransport ==
  /\ pc = "conn_transport"
  /\ \/ /\ exit_stack' = Append(exit_stack, "sse_client")
        /\ pc' = "conn_session"
        /\ UNCHANGED raised
     \/ /\ raised' = "ConnectError"
        /\ pc' = "cleanup"
        /\ UNCHANGED exit_stack
  /\ UNCHANGED <<conn_pc, server_script_path, session, tools, cleanups>>
  /\ UNCHANGED ChatLocals
  /\ UNCHANGED <<ctcVars, sumVars, dbVars, dataVars>>

\* line 31 / 53: enter_async_context(ClientSession(sse_recv, sse_sent))
ClientOpenSession ==
  /\ pc = "conn_session"
  /\ exit_stack' = Append(exit_stack, "ClientSession")
  /\ session' = "created"
  /\ pc' = "conn_initialize"
  /\ UNCHANGED <<conn_pc, server_script_path, tools, raised, cleanups>>
  /\ UNCHANGED ChatLocals
  /\ UNCHANGED <<ctcVars, sumVars, dbVars, dataVars>>

\* ClientInitialize with connect_to_server called outside the try block of main
ClientInitializeNoFinally ==
  /\ pc = "conn_initialize"
  /\ \/ /\ session' = "initialized"
        /\ pc' = "conn_tools"
        /\ UNCHANGED raised
     \/ /\ raised' = "McpError"
        /\ pc' = "done"
        /\ UNCHANGED session
  /\ UNCHANGED <<conn_pc, server_script_path, exit_stack, tools, cleanups>>
  /\ UNCHANGED ChatLocals
  /\ UNCHANGED <<ctcVars, sumVars, dbVars, dataVars>>

\* line 33 / 55: await self.session.initialize()
ClientInitialize ==
  /\ pc = "conn_initialize"
  /\ \/ /\ session' = "initialized"
        /\ pc' = "conn_tools"
        /\ UNCHANGED raised
     \/ /\ raised' = "McpError"
        /\ pc' = "cleanup"
        /\ UNCHANGED session
  /\ UNCHANGED <<conn_pc, server_script_path, exit_stack, tools, cleanups>>
  /\ UNCHANGED ChatLocals
  /\ UNCHANGED <<ctcVars, sumVars, dbVars, dataVars>>

\* sse_client.py lines 35-40 and 121-122 / independent_client.py lines 59-61:
\* session.list_tools and the reformatted tool list
ClientListTools ==
  /\ pc = "conn_tools"
  /\ \/ /\ \E listed \in ServerTools : tools' = listed
        /\ pc' = IF prog = "sse" THEN "sse_first_input" ELSE "ind_first_input"
        /\ UNCHANGED raised
     \/ /\ raised' = "McpError"
        /\ pc' = "cleanup"
        /\ UNCHANGED tools
  /\ UNCHANGED <<conn_pc, server_script_path, exit_stack, session, cleanups>>
  /\ UNCHANGED ChatLocals
  /\ UNCHANGED <<ctcVars, sumVars, dbVars, dataVars>>

\* lines 124-136: the first user line, the document, the initial prompt
SseFirstInput ==
  /\ prog = "sse" /\ pc = "sse_first_input"
  /\ \E line \in UserLines, doc \in Documents :
       LET content == IF doc = <<>> THEN fake_news_story ELSE doc
           prompt == Msg("user", "prompt", line, content, clock + 1)
       IN /\ user_message' = line
          /\ document_content' = content
          /\ messages' = Append(messages, prompt)
          /\ history' = Append(history, prompt)
  /\ clock' = clock + 1
  /\ pc' = "sse_loop"
  /\ UNCHANGED <<prog, llm_response, tool_call, inflight, sent, invoked, toolUses,
                 nCalls, nLines, time_format_24hr>>
  /\ UNCHANGED <<ctcVars, sumVars, connVars, dbVars, dataVars>>

\* input() raises EOFError: the exception leaves the try block
SseInputEOF ==
  /\ prog = "sse" /\ pc \in {"sse_first_input", "sse_input"}
  /\ pc' = "cleanup" /\ raised' = "EOFError"
  /\ UNCHANGED <<prog, messages, user_message, document_content, llm_response,
                 tool_call, inflight, sent, history, invoked, toolUses, nCalls,
                 nLines, clock, time_format_24hr>>
  /\ ClientUntouched
  /\ UNCHANGED <<ctcVars, sumVars, dbVars, dataVars>>

\* lines 138-141: an empty user_message makes the loop continue at once
SseSpinEmpty ==
  /\ prog = "sse" /\ pc = "sse_loop"
  /\ user_message = <<>>
  /\ UNCHANGED vars

\* lines 144-149: the model call of the outer loop
SseCallModel ==
  /\ prog = "sse" /\ pc = "sse_loop"
  /\ user_message # <<>>
  /\ nCalls < MaxModelCalls
  /\ inflight' = inflight \cup {Req("model", nCalls + 1)}
  /\ sent' = messages
  /\ nCalls' = nCalls + 1
  /\ pc' = "sse_await_llm"
  /\ UNCHANGED <<prog, messages, user_message, document_content, llm_response,
                 tool_call, history, invoked, toolUses, nLines, clock, time_format_24hr>>
  /\ UNCHANGED <<ctcVars, sumVars, connVars, dbVars, dataVars>>

\* lines 150-152 and 172-174: the response of a model call is received
SseModelResponse ==
  /\ prog = "sse" /\ pc = "sse_await_llm"
  /\ \E r \in inflight :
       /\ r.kind = "model"
       /\ inflight' = inflight \ {r}
  /\ \/ \* the API call raises
        /\ pc' = "cleanup" /\ raised' = "APIError"
        /\ UNCHANGED <<messages, llm_response, history, toolUses, clock>>
     \/ \E resp \in Responses :
          /\ llm_response' = resp
          /\ toolUses' = toolUses + (IF resp.stop_reason = "tool_use" THEN 1 ELSE 0)
          /\ clock' = clock + 1
          /\ IF FirstTextRaises(resp)
             THEN /\ pc' = "cleanup" /\ raised' = "AttributeError"
                  /\ UNCHANGED <<messages, history>>
             ELSE LET reply == Msg("assistant", "reply", Strip(resp.content[1].text),
                                   <<>>, clock + 1)
                  IN /\ messages' = Append(messages, reply)
                     /\ history' = Append(history, reply)
                     /\ pc' = "sse_check"
  /\ UNCHANGED <<prog, user_message, document_content, tool_call, sent, invoked,
                 nCalls, nLines, time_format_24hr>>
  /\ ClientUntouched
  /\ UNCHANGED <<ctcVars, sumVars, dbVars, dataVars>>

\* SseCheckToolCall with the tool call started but not awaited: the next model
\* call is issued while the tool call is still outstanding
SseCheckToolCallNoAwait ==
  /\ prog = "sse" /\ pc = "sse_check"
  /\ tool_call' = check_tool_call(llm_response)
  /\ IF ~Truthy(tool_call')
     THEN /\ pc' = "sse_input"
          /\ UNCHANGED <<inflight, invoked, sent, nCalls>>
     ELSE IF ToolAttrRaises(tool_call')
     THEN /\ pc' = "cleanup" /\ raised' = "AttributeError"
          /\ UNCHANGED <<inflight, invoked, sent, nCalls>>
     ELSE /\ nCalls < MaxModelCalls
          /\ inflight' = inflight \cup {Req("tool", Len(invoked) + 1),
                                        Req("model", nCalls + 1)}
          /\ invoked' = Append(invoked, [name |-> tool_call'.name, input |-> tool_call'.input])
          /\ sent' = messages
          /\ nCalls' = nCalls + 1
          /\ pc' = "sse_await_llm"
  /\ UNCHANGED <<prog, messages, user_message, document_content, llm_response,
                 history, toolUses, nLines, clock, time_format_24hr>>
  /\ ClientUntouched
  /\ UNCHANGED <<ctcVars, sumVars, dbVars, dataVars>>

\* lines 154-160: check_tool_call, break or session.call_tool
SseCheckToolCall ==
  /\ prog = "sse" /\ pc = "sse_check"
  /\ tool_call' = check_tool_call(llm_response)
  /\ pc' = AfterCheck(tool_call')
  /\ IF pc' = "sse_input"
     THEN UNCHANGED <<inflight, invoked>>
     ELSE IF pc' = "cleanup"
     THEN /\ raised' = "AttributeError"
          /\ UNCHANGED <<inflight, invoked>>
     ELSE /\ inflight' = inflight \cup {Req("tool", Len(invoked) + 1)}
          /\ invoked' = Append(invoked, [name |-> tool_call'.name, input |-> tool_call'.input])
  /\ UNCHANGED <<prog, messages, user_message, document_content, llm_response,
                 sent, history, toolUses, nCalls, nLines, clock, time_format_24hr>>
  /\ ClientUntouched
  /\ UNCHANGED <<ctcVars, sumVars, dbVars, dataVars>>

\* SseToolResponse with a failed tool call caught inside the loop and retried
SseToolResponseRetry ==
  /\ prog = "sse" /\ pc = "sse_await_tool"
  /\ \E r \in inflight :
       /\ r.kind = "tool"
       /\ \/ \* call_tool raises
             /\ inflight' = inflight \ {r}
             /\ pc' = "sse_check" /\ raised' = "McpError"
             /\ UNCHANGED <<messages, sent, nCalls, clock>>
          \/ \E t \in Texts :
               /\ nCalls < MaxModelCalls
               /\ messages' = Append(messages,
                                Msg("user", "tool_result", Strip(t), <<>>, clock + 1))
               /\ clock' = clock + 1
               /\ inflight' = (inflight \ {r}) \cup {Req("model", nCalls + 1)}
               /\ sent' = messages'
               /\ nCalls' = nCalls + 1
               /\ pc' = "sse_await_llm"
               /\ UNCHANGED raised
  /\ UNCHANGED <<prog, user_message, document_content, llm_response, tool_call,
                 history, invoked, toolUses, nLines, time_format_24hr>>
  /\ UNCHANGED <<conn_pc, server_script_path, exit_stack, session, tools, cleanups>>
  /\ UNCHANGED <<ctcVars, sumVars, dbVars, dataVars>>

\* lines 160-171: the tool result is received and appended, the model is called again
SseToolResponse ==
  /\ prog = "sse" /\ pc = "sse_await_tool"
  /\ \E r \in inflight :
       /\ r.kind = "tool"
       /\ \/ \* call_tool raises
             /\ inflight' = inflight \ {r}
             /\ pc' = "cleanup" /\ raised' = "McpError"
             /\ UNCHANGED <<messages, sent, nCalls, clock>>
          \/ \E t \in Texts :
               /\ nCalls < MaxModelCalls
               /\ messages' = Append(messages,
                                Msg("user", "tool_result", Strip(t), <<>>, clock + 1))
               /\ clock' = clock + 1
               /\ inflight' = (inflight \ {r}) \cup {Req("model", nCalls + 1)}
               /\ sent' = messages'
               /\ nCalls' = nCalls + 1
               /\ pc' = "sse_await_llm"
  /\ UNCHANGED <<prog, user_message, document_content, llm_response, tool_call,
                 history, invoked, toolUses, nLines, time_format_24hr>>
  /\ ClientUntouched
  /\ UNCHANGED <<ctcVars, sumVars, dbVars, dataVars>>

\* SseReadUser with the user line inserted at the head of the transcript
SseReadUserInsertFirst ==
  /\ prog = "sse" /\ pc = "sse_input"
  /\ nLines < MaxUserLines
  /\ \E line \in UserLines :
       LET m == Msg("user", "user", line, <<>>, clock + 1)
       IN /\ user_message' = line
          /\ messages' = <<m>> \o messages
          /\ history' = Append(history, m)
  /\ clock' = clock + 1
  /\ nLines' = nLines + 1
  /\ pc' = "sse_loop"
  /\ UNCHANGED <<prog, document_content, llm_response, tool_call, inflight, sent,
                 invoked, toolUses, nCalls, time_format_24hr>>
  /\ UNCHANGED <<ctcVars, sumVars, connVars, dbVars, dataVars>>

\* lines 176-177: the next user line is read and appended
SseReadUser ==
  /\ prog = "sse" /\ pc = "sse_input"
  /\ nLines < MaxUserLines
  /\ \E line \in UserLines :
       LET m == Msg("user", "user", line, <<>>, clock + 1)
       IN /\ user_message' = line
          /\ messages' = Append(messages, m)
          /\ history' = Append(history, m)
  /\ clock' = clock + 1
  /\ nLines' = nLines + 1
  /\ pc' = "sse_loop"
  /\ UNCHANGED <<prog, document_content, llm_response, tool_call, inflight, sent,
                 invoked, toolUses, nCalls, time_format_24hr>>
  /\ UNCHANGED <<ctcVars, sumVars, connVars, dbVars, dataVars>>

\* finally: await client.cleanup(), which is exit_stack.aclose(): every
\* context entered on the stack is exited
Cleanup ==
  /\ pc = "cleanup"
  /\ exit_stack' = <<>>
  /\ cleanups' = cleanups + 1
  /\ pc' = "done"
  /\ UNCHANGED <<conn_pc, server_script_path, session, tools, raised>>
  /\ UNCHANGED <<prog, messages, user_message, document_content, llm_response,
                 tool_call, inflight, sent, history, invoked, toolUses, nCalls,
                 nLines, clock, time_format_24hr>>
  /\ UNCHANGED <<ctcVars, sumVars, dbVars, dataVars>>

\* ---------------------------------------------------------------------
\* independent_client.MCPClient
\* ---------------------------------------------------------------------
\* str.lower(), word by word
LowerWord(w) == IF w = "Switch" THEN "switch" ELSE w
Lower(msg) == [i \in 1..Len(msg) |-> LowerWord(msg[i])]

\* phrase in user_message, on words
ContainsPhrase(msg, phrase) ==
  \E i \in 1..(Len(msg) - Len(phrase) + 1) : SubSeq(msg, i, i + Len(phrase) - 1) = phrase

\* lines 279-281
ToggleCommands ==
  { <<"switch", "to", "12-hour">>, <<"switch", "to", "24-hour">>,
    <<"switch", "time", "format">>, <<"change", "time", "format">>,
    <<"12", "hour">>, <<"24", "hour">>, <<"switch", "format">>,
    <<"change", "format">>, <<"other", "format">>,
    <<"twelve", "hour", "format">>, <<"twenty-four", "hour", "format">> }

IsToggle(msg) == Lower(msg) \in ToggleCommands

detect_datetime_request(msg) ==
  LET message == Lower(msg)
      time_keywords == { <<"time">>, <<"current", "time">>, <<"what", "time">>,
                         <<"tell", "me", "the", "time">> }
      date_keywords == { <<"date">>, <<"current", "date">>, <<"what", "date">>,
                         <<"tell", "me", "the", "date">> }
      both_keywords == { <<"date", "and", "time">>, <<"time", "and", "date">>,
                         <<"current", "date", "and", "time">> }
  IN IF \E p \in both_keywords : ContainsPhrase(message, p) THEN "both"
     ELSE IF \E p \in time_keywords : ContainsPhrase(message, p) THEN "time"
     ELSE IF \E p \in date_keywords : ContainsPhrase(message, p) THEN "date"
     ELSE "none"

\* send_message, lines 218-225: the list the model call receives
SendMessageArg(msgs, doc, user, at) ==
  IF msgs = <<>>
  THEN <<Msg("user", "prompt", user, doc, at)>>
  ELSE Append(msgs, Msg("user", "user", user, <<>>, at))

\* send_message, lines 218-225: the caller's list after the call; "messages = []"
\* rebinds the parameter, so an empty caller's list stays empty
SendMessageCallerList(msgs, doc, user, at) ==
  IF msgs = <<>>
  THEN msgs
  ELSE Append(msgs, Msg("user", "user", user, <<>>, at))

\* chat_loop, lines 272-275
IndFirstInput ==
  /\ prog = "ind" /\ pc = "ind_first_input"
  /\ \E line \in UserLines, doc \in Documents :
       /\ user_message' = line
       /\ document_content' = doc
  /\ messages' = <<>>
  /\ pc' = "ind_loop"
  /\ UNCHANGED <<prog, llm_response, tool_call, inflight, sent, history, invoked,
                 toolUses, nCalls, nLines, clock, time_format_24hr>>
  /\ UNCHANGED <<ctcVars, sumVars, connVars, dbVars, dataVars>>

\* input() raises EOFError
IndInputEOF ==
  /\ prog = "ind" /\ pc \in {"ind_first_input", "ind_input"}
  /\ pc' = "cleanup" /\ raised' = "EOFError"
  /\ UNCHANGED <<prog, messages, user_message, document_content, llm_response,
                 tool_call, inflight, sent, history, invoked, toolUses, nCalls,
                 nLines, clock, time_format_24hr>>
  /\ ClientUntouched
  /\ UNCHANGED <<ctcVars, sumVars, dbVars, dataVars>>

\* lines 279-284 and toggle_time_format
IndToggle ==
  /\ prog = "ind" /\ pc = "ind_loop"
  /\ IsToggle(user_message)
  /\ time_format_24hr' = ~time_format_24hr
  /\ pc' = "ind_input"
  /\ UNCHANGED <<prog, messages, user_message, document_content, llm_response,
                 tool_call, inflight, sent, history, invoked, toolUses, nCalls,
                 nLines, clock>>
  /\ UNCHANGED <<ctcVars, sumVars, connVars, dbVars, dataVars>>

\* lines 287-293: a date/time request is answered locally
IndDatetime ==
  /\ prog = "ind" /\ pc = "ind_loop"
  /\ ~IsToggle(user_message)
  /\ detect_datetime_request(user_message) # "none"
  /\ pc' = "ind_input"
  /\ UNCHANGED <<prog, messages, user_message, document_content, llm_response,
                 tool_call, inflight, sent, history, invoked, toolUses, nCalls,
                 nLines, clock, time_format_24hr>>
  /\ UNCHANGED <<ctcVars, sumVars, connVars, dbVars, dataVars>>

\* lines 296-299: an empty user_message makes the loop continue at once
IndSpinEmpty ==
  /\ prog = "ind" /\ pc = "ind_loop"
  /\ ~IsToggle(user_message)
  /\ detect_datetime_request(user_message) = "none"
  /\ user_message = <<>>
  /\ document_content' = IF document_content = <<>> THEN fake_news_story ELSE document_content
  /\ UNCHANGED <<prog, pc, messages, user_message, llm_response,
                 tool_call, inflight, sent, history, invoked, toolUses, nCalls,
                 nLines, clock, time_format_24hr>>
  /\ UNCHANGED <<ctcVars, sumVars, connVars, dbVars, dataVars>>

\* lines 296-301 and send_message: the model call
IndSendMessage ==
  /\ prog = "ind" /\ pc = "ind_loop"
  /\ ~IsToggle(user_message)
  /\ detect_datetime_request(user_message) = "none"
  /\ user_message # <<>>
  /\ nCalls < MaxModelCalls
  /\ document_content' = IF document_content = <<>> THEN fake_news_story ELSE document_content
  /\ sent' = SendMessageArg(messages, document_content', user_message, clock + 1)
  /\ messages' = SendMessageCallerList(messages, document_content', user_message, clock + 1)
  /\ history' = Append(history, sent'[Len(sent')])
  /\ clock' = clock + 1
  /\ inflight' = inflight \cup {Req("model", nCalls + 1)}
  /\ nCalls' = nCalls + 1
  /\ pc' = "ind_await_llm"
  /\ UNCHANGED <<prog, user_message, llm_response, tool_call, invoked, toolUses,
                 nLines, time_format_24hr>>
  /\ UNCHANGED <<ctcVars, sumVars, connVars, dbVars, dataVars>>

\* lines 301-313: the response is received; tool call or second append
IndModelResponse ==
  /\ prog = "ind" /\ pc = "ind_await_llm"
  /\ \E r \in inflight :
       /\ r.kind = "model"
       /\ \/ \* the API call raises
             /\ inflight' = inflight \ {r}
             /\ pc' = "cleanup" /\ raised' = "APIError"
             /\ UNCHANGED <<messages, llm_response, tool_call, history, invoked,
                            toolUses, clock>>
          \/ \E resp \in Responses :
               /\ llm_response' = resp
               /\ toolUses' = toolUses + (IF resp.stop_reason = "tool_use" THEN 1 ELSE 0)
               /\ clock' = clock + 1
               /\ IF FirstTextRaises(resp)
                  THEN /\ pc' = "cleanup" /\ raised' = "AttributeError"
                       /\ inflight' = inflight \ {r}
                       /\ UNCHANGED <<messages, tool_call, history, invoked>>
                  ELSE LET reply == Msg("assistant", "reply", Strip(resp.content[1].text),
                                        <<>>, clock + 1)
                       IN /\ history' = Append(history, reply)
                          /\ tool_call' = check_tool_call(resp)
                          /\ IF ~Truthy(tool_call')
                             THEN /\ messages' = Append(Append(messages, reply), reply)
                                  /\ inflight' = inflight \ {r}
                                  /\ pc' = "ind_input"
                                  /\ UNCHANGED invoked
                             ELSE IF ToolAttrRaises(tool_call')
                             THEN /\ messages' = Append(messages, reply)
                                  /\ inflight' = inflight \ {r}
                                  /\ pc' = "cleanup" /\ raised' = "AttributeError"
                                  /\ UNCHANGED invoked
                             ELSE /\ messages' = Append(messages, reply)
                                  /\ inflight' = (inflight \ {r})
                                                   \cup {Req("tool", Len(invoked) + 1)}
                                  /\ invoked' = Append(invoked, [name |-> tool_call'.name,
                                                                  input |-> tool_call'.input])
                                  /\ pc' = "ind_await_tool"
  /\ UNCHANGED <<prog, user_message, document_content, sent, nCalls, nLines,
                 time_format_24hr>>
  /\ ClientUntouched
  /\ UNCHANGED <<ctcVars, sumVars, dbVars, dataVars>>

\* lines 308-311: the tool result is received and appended
IndToolResponse ==
  /\ prog = "ind" /\ pc = "ind_await_tool"
  /\ \E r \in inflight :
       /\ r.kind = "tool"
       /\ inflight' = inflight \ {r}
  /\ \/ \* call_tool raises
        /\ pc' = "cleanup" /\ raised' = "McpError"
        /\ UNCHANGED <<messages, clock>>
     \/ \E t \in Texts :
          /\ messages' = Append(messages,
                           Msg("assistant", "tool_result", Strip(t), <<>>, clock + 1))
          /\ clock' = clock + 1
          /\ pc' = "ind_input"
  /\ UNCHANGED <<prog, user_message, document_content, llm_response, tool_call,
                 sent, history, invoked, toolUses, nCalls, nLines, time_format_24hr>>
  /\ ClientUntouched
  /\ UNCHANGED <<ctcVars, sumVars, dbVars, dataVars>>

\* lines 283, 292, 314: user_message = input("User: ")
IndReadUser ==
  /\ prog = "ind" /\ pc = "ind_input"
  /\ nLines < MaxUserLines
  /\ \E line \in UserLines : user_message' = line
  /\ nLines' = nLines + 1
  /\ pc' = "ind_loop"
  /\ UNCHANGED <<prog, messages, document_content, llm_response, tool_call, inflight,
                 sent, history, invoked, toolUses, nCalls, clock, time_format_24hr>>
  /\ UNCHANGED <<ctcVars, sumVars, connVars, dbVars, dataVars>>

\* ---------------------------------------------------------------------
\* The chat clients
\* ---------------------------------------------------------------------
Init ==
  /\ prog \in {"sse", "ind"}
  /\ pc = "conn_transport"
  /\ messages = <<>>
  /\ user_message = <<>>
  /\ document_content = <<>>
  /\ llm_response = NoResponse
  /\ tool_call = FalseVal
  /\ inflight = {}
  /\ sent = <<>>
  /\ history = <<>>
  /\ invoked = <<>>
  /\ toolUses = 0
  /\ nCalls = 0
  /\ nLines = 0
  /\ clock = 0
  /\ time_format_24hr = TRUE
  /\ IdleCtc /\ IdleSum /\ IdleConn /\ IdleDb /\ IdleData

Next ==
  \/ ClientOpenTransport \/ ClientOpenSession \/ ClientInitialize \/ ClientListTools
  \/ SseFirstInput \/ SseInputEOF \/ SseSpinEmpty \/ SseCallModel
  \/ SseModelResponse \/ SseCheckToolCall \/ SseToolResponse \/ SseReadUser
  \/ IndFirstInput \/ IndInputEOF \/ IndToggle \/ IndDatetime
  \/ IndSpinEmpty \/ IndSendMessage \/ IndModelResponse \/ IndToolResponse
  \/ IndReadUser \/ Cleanup

Spec == Init /\ [][Next]_vars

\* main keeps running: a step that can be taken is eventually taken
SpecLive == Spec /\ WF_vars(Next)

\* ---------------------------------------------------------------------
\* check_tool_call on its own
\* ---------------------------------------------------------------------
\* responses of up to n content blocks
ResponsesUpTo(n) ==
  { [stop_reason |-> IF HasToolUse(c) THEN "tool_use" ELSE "end_turn", content |-> c] :
      c \in { s \in SeqsUpTo(Blocks, n) : s # <<>> } }

InitCheckToolCall ==
  /\ ctc_pc = "ready"
  /\ response \in ResponsesUpTo(MaxContent)
  /\ ctc_result = UnsetVal
  /\ ctc_printed = <<>>
  /\ ctc_next = ""
  /\ IdleChat /\ IdleSum /\ IdleConn /\ IdleDb /\ IdleData

\* lines 155-157: tool_call = check_tool_call(response), then the test of it
CallCheckToolCall ==
  /\ ctc_pc = "ready"
  /\ ctc_result' = check_tool_call(response)
  /\ ctc_printed' = CheckToolCallPrints(response)
  /\ ctc_next' = AfterCheck(ctc_result')
  /\ ctc_pc' = "returned"
  /\ UNCHANGED <<response, chatVars, sumVars, connVars, dbVars, dataVars>>

NextCheckToolCall == CallCheckToolCall

SpecCheckToolCall == InitCheckToolCall /\ [][NextCheckToolCall]_vars

\* ---------------------------------------------------------------------
\* summarize_document (server.py and JZ-Training-demo-main/server.py)
\* ---------------------------------------------------------------------
\* A reply text is a sequence of characters in which each tag is one token.
OpenTag == "<summary>"
CloseTag == "</summary>"
ReplyChars == { OpenTag, CloseTag, "a" }

\* str.split(sep) for a one-token separator: the pieces between occurrences
RECURSIVE Split(_, _)
Split(s, sep) ==
  IF \E i \in 1..Len(s) : s[i] = sep
  THEN LET i == CHOOSE k \in 1..Len(s) : s[k] = sep /\ \A j \in 1..(k - 1) : s[j] # sep
       IN <<SubSeq(s, 1, i - 1)>> \o Split(SubSeq(s, i + 1, Len(s)), sep)
  ELSE <<s>>

\* lines 79-82: split twice; [1] raises IndexError when there is no opening tag
summarize_document(text) ==
  LET parts == Split(text, OpenTag)
  IN IF Len(parts) < 2
     THEN [raised |-> "IndexError", value |-> <<>>]
     ELSE [raised |-> "none", value |-> Split(parts[2], CloseTag)[1]]

InitSummarize ==
  /\ sum_pc = "ready"
  /\ reply_text \in SeqsUpTo(ReplyChars, MaxTextLen)
  /\ summary = NoSummary
  /\ IdleChat /\ IdleCtc /\ IdleConn /\ IdleDb /\ IdleData

\* the tool returns the summary (or raises)
CallSummarize ==
  /\ sum_pc = "ready"
  /\ summary' = summarize_document(reply_text)
  /\ sum_pc' = "returned"
  /\ UNCHANGED <<reply_text, chatVars, ctcVars, connVars, dbVars, dataVars>>

NextSummarize == CallSummarize

SpecSummarize == InitSummarize /\ [][NextSummarize]_vars

\* ---------------------------------------------------------------------
\* client.MCPClient.connect_to_server (both copies in client.py)
\* ---------------------------------------------------------------------
\* A path is a sequence of characters.
PathChars == { ".", "p", "y" }

\* str.endswith
EndsWith(s, suffix) ==
  Len(s) >= Len(suffix) /\ SubSeq(s, Len(s) - Len(suffix) + 1, Len(s)) = suffix

\* the extension test without the dot
is_python_no_dot(path) == EndsWith(path, <<"p", "y">>)

\* line 51 / 299: is_python = server_script_path.endswith(".py")
is_python(path) == EndsWith(path, <<".", "p", "y">>)

InitConnect ==
  /\ conn_pc = "start"
  /\ server_script_path \in SeqsUpTo(PathChars, MaxPathLen)
  /\ exit_stack = <<>>
  /\ session = "unset"
  /\ tools = <<>>
  /\ raised = "none"
  /\ cleanups = 0
  /\ IdleChat /\ IdleCtc /\ IdleSum /\ IdleDb /\ IdleData

\* lines 51-53 / 299-301: the extension check
ConnectValidate ==
  /\ conn_pc = "start"
  /\ IF ~is_python(server_script_path)
     THEN raised' = "ValueError" /\ conn_pc' = "raised"
     ELSE raised' = raised /\ conn_pc' = "open_transport"
  /\ UNCHANGED <<server_script_path, exit_stack, session, tools, cleanups>>
  /\ UNCHANGED <<chatVars, ctcVars, sumVars, dbVars, dataVars>>

\* line 59 / 311: enter_async_context(stdio_client(server_params))
ConnectOpenTransport ==
  /\ conn_pc = "open_transport"
  /\ \/ /\ exit_stack' = Append(exit_stack, "stdio_client")
        /\ conn_pc' = "open_session"
        /\ UNCHANGED raised
     \/ /\ raised' = "OSError"
        /\ conn_pc' = "raised"
        /\ UNCHANGED exit_stack
  /\ UNCHANGED <<server_script_path, session, tools, cleanups>>
  /\ UNCHANGED <<chatVars, ctcVars, sumVars, dbVars, dataVars>>

\* lines 61-62 / 314-315: enter_async_context(ClientSession(...))
ConnectOpenSession ==
  /\ conn_pc = "open_session"
  /\ exit_stack' = Append(exit_stack, "ClientSession")
  /\ session' = "created"
  /\ conn_pc' = "initialize"
  /\ UNCHANGED <<server_script_path, tools, raised, cleanups>>
  /\ UNCHANGED <<chatVars, ctcVars, sumVars, dbVars, dataVars>>

\* line 64 / 317: await self.session.initialize()
ConnectInitialize ==
  /\ conn_pc = "initialize"
  /\ \/ /\ session' = "initialized"
        /\ conn_pc' = "list_tools"
        /\ UNCHANGED raised
     \/ /\ raised' = "McpError"
        /\ conn_pc' = "raised"
        /\ UNCHANGED session
  /\ UNCHANGED <<server_script_path, exit_stack, tools, cleanups>>
  /\ UNCHANGED <<chatVars, ctcVars, sumVars, dbVars, dataVars>>

\* lines 68-72 / 320-324: list_tools and self.tools = formatted_tools
ConnectListTools ==
  /\ conn_pc = "list_tools"
  /\ \/ /\ \E listed \in ServerTools : tools' = listed
        /\ conn_pc' = "connected"
        /\ UNCHANGED raised
     \/ /\ raised' = "McpError"
        /\ conn_pc' = "raised"
        /\ UNCHANGED tools
  /\ UNCHANGED <<server_script_path, exit_stack, session, cleanups>>
  /\ UNCHANGED <<chatVars, ctcVars, sumVars, dbVars, dataVars>>

NextConnect ==
  \/ ConnectValidate \/ ConnectOpenTransport \/ ConnectOpenSession
  \/ ConnectInitialize \/ ConnectListTools

SpecConnect == InitConnect /\ [][NextConnect]_vars

\* ---------------------------------------------------------------------
\* data_pop.database_connection.DatabaseConnection
\* ---------------------------------------------------------------------
\* A connection string is a sequence of tokens; "DATABASE=" is one token.
BaseConnectionString ==
  << "DRIVER={ODBC Driver 17 for SQL Server}", ";", "SERVER=", "srv",
     ";", "UID=", "usr", ";", "PWD=", "pwd" >>

\* database arguments; "" stands for both '' and None
DbArgs == { "", "db1", "db2" }

\* str.replace(old, new) for a non-empty old
RECURSIVE Replace(_, _, _)
Replace(s, old, new) ==
  IF Len(s) < Len(old) THEN s
  ELSE IF SubSeq(s, 1, Len(old)) = old
       THEN new \o Replace(SubSeq(s, Len(old) + 1, Len(s)), old, new)
       ELSE <<Head(s)>> \o Replace(Tail(s), old, new)

\* get_connection, lines 134-138: the string handed to pyodbc.connect
ConnStrFor(cs, database) ==
  IF database # ""
  THEN LET pieces == Split(cs, "DATABASE=")
           last == pieces[Len(pieces)]
       IN Replace(cs, <<"DATABASE=">> \o last, <<"DATABASE=", database>>)
  ELSE cs

\* a connection pyodbc.connect returned
NewConn(cs, by, database) ==
  [conn_str |-> cs, open |-> TRUE, by |-> by, requested |-> database]

\* attributes of CursorManager (cursor_manager.py)
CursorManagerAttrs == { "__init__", "__enter__", "__exit__" }

\* what cursor.execute(query) can do on a CursorManager
ExecuteOutcomes ==
  IF "execute" \in CursorManagerAttrs THEN { "ok", "pyodbc.Error" } ELSE { "AttributeError" }

\* Result rows, cut to the columns the methods read: a name, and for an
\* INFORMATION_SCHEMA.COLUMNS row the data type, maximum length and IS_NULLABLE
Row1 == <<"r1", "varchar", <<2>>, "NO">>
Row2 == <<"r2", "bit", <<>>, "YES">>
\* what cursor.fetchall() can return
RowSets == { <<>>, <<Row1>>, <<Row1, Row2>> }

\* lines 204, 229, 258, 286: [row[0] for row in cursor.fetchall()]
NameEntries(fetched) == [i \in 1..Len(fetched) |-> fetched[i][1]]
\* lines 323-331 and 375-383: the column dictionary built from a row
ColumnOf(r) ==
  [name |-> r[1], property_type |-> r[2], max_length |-> r[3], nullable |-> (r[4] = "YES")]
Columns(fetched) == [i \in 1..Len(fetched) |-> ColumnOf(fetched[i])]
\* lines 427-438: the trigger dictionary built from a row
TriggerOf(r) == [TriggerName |-> r[1]]
\* the list a metadata method builds from the fetched rows
Entries(method, fetched) ==
  IF method \in { "get_table_data_structure", "get_row_data_structure" }
  THEN Columns(fetched)
  ELSE IF method = "get_triggers"
  THEN [i \in 1..Len(fetched) |-> TriggerOf(fetched[i])]
  ELSE NameEntries(fetched)

MetadataMethods ==
  { "get_all_databases", "get_tables_by_database", "get_schemas_by_database",
    "get_tables_by_schema", "get_table_data_structure", "get_row_data_structure",
    "get_triggers" }

NoResult == [method |-> "", outcome |-> "", value |-> <<>>]

InitDatabase ==
  /\ db_pc = "new"
  /\ connection_string = <<>>
  /\ conns = <<>>
  /\ self_connection = 0
  /\ db_result = NoResult
  /\ printed = <<>> /\ executed = <<>> /\ db_error = "none" /\ fetched_rows = <<>>
  /\ IdleChat /\ IdleCtc /\ IdleSum /\ IdleConn /\ IdleData

\* __init__, lines 113-121: get_connection runs before ";DATABASE=" is appended
DbConstruct ==
  /\ db_pc = "new"
  /\ \E database \in DbArgs, connected \in BOOLEAN :
       IF connected
       THEN /\ conns' = <<NewConn(ConnStrFor(BaseConnectionString, database),
                                  "__init__", database)>>
            /\ self_connection' = 1
            /\ connection_string' =
                 IF database # ""
                 THEN BaseConnectionString \o <<";", "DATABASE=", database>>
                 ELSE BaseConnectionString
            /\ db_pc' = "ready"
       ELSE \* pyodbc.connect raises: no object is constructed
            /\ connection_string' = BaseConnectionString
            /\ db_pc' = "failed"
            /\ UNCHANGED <<conns, self_connection>>
  /\ UNCHANGED <<db_result, printed, executed, db_error, fetched_rows>>
  /\ UNCHANGED <<chatVars, ctcVars, sumVars, connVars, dataVars>>

\* get_connection(database), lines 129-139
DbGetConnection ==
  /\ db_pc = "ready"
  /\ Len(conns) < MaxConnections
  /\ \E database \in DbArgs, connected \in BOOLEAN :
       IF connected
       THEN /\ conns' = Append(conns, NewConn(ConnStrFor(connection_string, database),
                                              "get_connection", database))
            /\ db_result' = [method |-> "get_connection", outcome |-> "returned",
                             value |-> <<>>]
       ELSE /\ db_result' = [method |-> "get_connection", outcome |-> "pyodbc.Error",
                             value |-> <<>>]
            /\ UNCHANGED conns
  /\ UNCHANGED <<db_pc, connection_string, self_connection, printed, executed, db_error,
                 fetched_rows>>
  /\ UNCHANGED <<chatVars, ctcVars, sumVars, connVars, dataVars>>

\* The body shared by the metadata methods: try get_connection, CursorManager,
\* cursor.execute, fetchall; except pyodbc.Error return []; finally
\* self.connection.close(), guarded by '"connection" in locals()' or not.
MetadataBody(method, guarded) ==
  /\ db_pc = "ready"
  /\ Len(conns) < MaxConnections
  /\ \E database \in DbArgs, connected \in BOOLEAN,
        outcome \in ExecuteOutcomes, fetched \in RowSets :
       LET opened == IF connected
                     THEN Append(conns, NewConn(ConnStrFor(connection_string, database),
                                                method, database))
                     ELSE conns
           closes == connected \/ ~guarded
       IN /\ conns' = IF closes
                      THEN [opened EXCEPT ![self_connection].open = FALSE]
                      ELSE opened
          /\ db_result' =
               IF ~connected \/ outcome = "pyodbc.Error"
               THEN [method |-> method, outcome |-> "returned", value |-> <<>>]
               ELSE IF outcome = "AttributeError"
               THEN [method |-> method, outcome |-> "AttributeError", value |-> <<>>]
               ELSE [method |-> method, outcome |-> "returned",
                     value |-> Entries(method, fetched)]
          /\ fetched_rows' = IF connected /\ outcome = "ok" THEN fetched ELSE <<>>
          /\ db_error' = IF ~connected \/ outcome = "pyodbc.Error"
                          THEN "pyodbc.Error" ELSE "none"
          /\ printed' = IF ~connected \/ outcome = "pyodbc.Error"
                         THEN <<"retrieval error">> ELSE <<>>
  /\ UNCHANGED <<db_pc, connection_string, self_connection, executed>>

\* a metadata method called on its own
MetadataCall(method, guarded) ==
  /\ MetadataBody(method, guarded)
  /\ UNCHANGED <<chatVars, ctcVars, sumVars, connVars, dataVars>>

\* execute_query(query, params, connection), lines 147-179; connection 0 is
\* None, otherwise the index of an open connection handed in by the caller
ExecuteQueryBody(query, connection) ==
  /\ db_pc = "ready"
  /\ Len(conns) < MaxConnections
  /\ \E connected \in BOOLEAN, outcome \in ExecuteOutcomes :
       LET close_connection == connection = 0 /\ connected
           opened == IF close_connection
                     THEN Append(conns, NewConn(connection_string, "execute_query", ""))
                     ELSE conns
           error == (connection = 0 /\ ~connected) \/ outcome = "pyodbc.Error"
       IN /\ conns' = IF close_connection
                      THEN [opened EXCEPT ![Len(opened)].open = FALSE]
                      ELSE opened
          /\ db_error' = IF error THEN "pyodbc.Error" ELSE "none"
          /\ printed' = IF error THEN <<"Query execution error", query>> ELSE <<>>
          /\ IF error
             THEN \* sys.exit(0) raises SystemExit before 'return None' is reached
                  /\ db_result' = [method |-> "execute_query", outcome |-> "SystemExit",
                                   value |-> <<>>]
                  /\ db_pc' = "exited"
                  /\ UNCHANGED executed
             ELSE IF outcome = "AttributeError"
             THEN /\ db_result' = [method |-> "execute_query",
                                   outcome |-> "AttributeError", value |-> <<>>]
                  /\ UNCHANGED <<db_pc, executed>>
             ELSE /\ db_result' = [method |-> "execute_query", outcome |-> "returned",
                                   value |-> <<>>]
                  /\ executed' = Append(executed, query)
                  /\ UNCHANGED db_pc
  /\ UNCHANGED <<connection_string, self_connection, fetched_rows>>

Queries == { "q1", "q2" }

execute_query ==
  /\ \E query \in Queries, connection \in 0..Len(conns) :
       /\ (connection # 0 => conns[connection].open)
       /\ ExecuteQueryBody(query, connection)
  /\ UNCHANGED <<chatVars, ctcVars, sumVars, connVars, dataVars>>

\* lines 187-211
get_all_databases == MetadataCall("get_all_databases", TRUE)
\* lines 213-236
get_tables_by_database == MetadataCall("get_tables_by_database", TRUE)
\* lines 238-265
get_schemas_by_database == MetadataCall("get_schemas_by_database", TRUE)
\* lines 267-291: the finally block closes without the locals() guard
get_tables_by_schema == MetadataCall("get_tables_by_schema", FALSE)
\* lines 293-339
get_table_data_structure == MetadataCall("get_table_data_structure", TRUE)
\* lines 341-391
get_row_data_structure == MetadataCall("get_row_data_structure", TRUE)
\* lines 393-446
get_triggers == MetadataCall("get_triggers", TRUE)

NextDatabase ==
  \/ DbConstruct \/ DbGetConnection
  \/ get_all_databases \/ get_tables_by_database \/ get_schemas_by_database
  \/ get_tables_by_schema \/ get_table_data_structure \/ get_row_data_structure
  \/ get_triggers \/ execute_query

SpecDatabase == InitDatabase /\ [][NextDatabase]_vars

\* ---------------------------------------------------------------------
\* data_pop/fake_data_generator.py
\* ---------------------------------------------------------------------
MaxColumnLen == 3
MaxWord == 4
\* max_length = 25, lines 68 and 71
DefaultMaxLength == 25
\* random.randint(1, 10) and 'max_length or 10', line 75
MaxBinaryBytes == 10

\* The letters fake.pystr draws from; positions after MaxWord hold "a".
Letters == { "N", "U", "L" }
NULL == <<"N", "U", "L", "L">>
SupportedTypes == { "varchar", "nvarchar", "char", "text", "varbinary", "bit",
                    "int", "float", "datetime", "date", "bool" }
StringTypes == { "varchar", "nvarchar", "char", "text" }
PropertyTypes == SupportedTypes \cup { "geography" }
\* max_length: <<>> is None, <<n>> the integer n
MaxLengths == { <<>> } \cup { <<n>> : n \in {-1, 0} \cup (1..MaxColumnLen) }

Pad(n) == [i \in 1..n |-> "a"]
\* fake.pystr(min_chars=lo, max_chars=hi): letters, a random length in lo..hi
PyStr(lo, hi) ==
  UNION { { w \o Pad(n) : n \in (IF Len(w) = MaxWord THEN 0..(hi - Len(w)) ELSE {0}) }
          : w \in { v \in SeqsUpTo(Letters, MaxWord) : Len(v) >= lo /\ Len(v) <= hi } }
\* s[:n] for n >= 0
Slice(s, n) == SubSeq(s, 1, IF Len(s) < n THEN Len(s) ELSE n)
\* x or d
OrDefault(x, d) == IF x = 0 THEN d ELSE x
Quoted(s) == <<"'">> \o s \o <<"'">>

gen_is_null_always_random(nl) == { TRUE, FALSE }
\* lines 13-25: the values gen_is_null(nullable) can return
gen_is_null(nl) == IF nl THEN { TRUE, FALSE } ELSE { FALSE }

\* lines 67-68
ResolveMaxLength(ml) == IF ml = <<>> \/ ml = <<-1>> THEN DefaultMaxLength ELSE ml[1]

StringValuesUntruncated(ml) ==
  { PyVal("str", Quoted(g)) : g \in PyStr(1, DefaultMaxLength) }
\* lines 70-73
StringValues(ml) ==
  LET n == OrDefault(ml, DefaultMaxLength)
  IN { PyVal("str", Quoted(Slice(g, n))) : g \in PyStr(1, n) }

\* lines 74-76: "0x" followed by two hex digits per byte
BinaryValues(ml) ==
  { PyVal("str", <<"0", "x">> \o [i \in 1..(2 * k) |-> "f"])
    : k \in { IF r < OrDefault(ml, MaxBinaryBytes) THEN r ELSE OrDefault(ml, MaxBinaryBytes)
              : r \in 1..MaxBinaryBytes } }

\* lines 77-93: the remaining types
OtherValues(pt) ==
  IF pt = "bit" THEN { PyVal("int", <<"0">>), PyVal("int", <<"1">>) }
  ELSE IF pt = "int" THEN { PyVal("str", <<"0">>), PyVal("str", <<"4", "2">>) }
  ELSE IF pt = "float" THEN { PyVal("str", <<"-", "1", ".", "5">>) }
  ELSE IF pt = "datetime" THEN { PyVal("str", Quoted(<<"2020-01-01", " ", "00:00:00">>)) }
  ELSE IF pt = "date" THEN { PyVal("str", Quoted(<<"2020-01-01">>)) }
  ELSE IF pt = "bool" THEN { PyVal("str", <<"TRUE">>), PyVal("str", <<"FALSE">>) }
  ELSE { PyVal("ValueError", <<>>) }

\* lines 36-93: the values generate_fake_property can return (or the
\* exception it raises) for one choice is_null of gen_is_null
generate_fake_property(pt, is_null, ml) ==
  IF is_null THEN { PyVal("str", NULL) }
  ELSE LET n == ResolveMaxLength(ml)
       IN IF pt \in StringTypes THEN StringValues(n)
          ELSE IF pt = "varbinary" THEN BinaryValues(n)
          ELSE OtherValues(pt)

InitGenerate ==
  /\ gen_pc = "called"
  /\ property_type \in PropertyTypes
  /\ nullable \in BOOLEAN
  /\ max_length \in MaxLengths
  /\ fake_property = PyVal("unset", <<>>)
  /\ IdleFmt /\ IdlePop
  /\ IdleChat /\ IdleCtc /\ IdleSum /\ IdleConn /\ IdleDb

CallGenerate ==
  /\ gen_pc = "called"
  /\ \E is_null \in gen_is_null(nullable) :
       \E v \in generate_fake_property(property_type, is_null, max_length) :
          fake_property' = v
  /\ gen_pc' = "returned"
  /\ UNCHANGED <<property_type, nullable, max_length>>
  /\ UNCHANGED <<fmtVars, popVars, chatVars, ctcVars, sumVars, connVars, dbVars>>

NextGenerate == CallGenerate

SpecGenerate == InitGenerate /\ [][NextGenerate]_vars

\* ---------------------------------------------------------------------
\* data_pop/database_populator.py: create_query and its format_value
\* ---------------------------------------------------------------------
MaxValueLen == 3

ValueChars == { "'", "a", "b" }
\* strings strptime("%Y-%m-%d %H:%M:%S.%f") accepts, each one character here,
\* and what strftime with the same format prints for the parsed value
DateTimeTexts == { <<"2020-01-01 00:00:00.5">>, <<"2020-01-01 00:00:00.500000">> }
Strftime(s) == <<"2020-01-01 00:00:00.500000">>
RawValues ==
  { PyVal("None", <<>>), PyVal("int", <<"1">>), PyVal("str", NULL) }
    \cup { PyVal("str", t) : t \in SeqsUpTo(ValueChars, MaxValueLen) \cup DateTimeTexts }
ColumnNames == { "c1", "ATTACHMENT_BODY", "CREATED_DATE", "LAST_UPDATED_DATE" }

RECURSIVE LStripQuote(_)
LStripQuote(s) == IF s # <<>> /\ Head(s) = "'" THEN LStripQuote(Tail(s)) ELSE s
RECURSIVE RStripQuote(_)
RStripQuote(s) ==
  IF s # <<>> /\ s[Len(s)] = "'" THEN RStripQuote(SubSeq(s, 1, Len(s) - 1)) ELSE s
\* str.strip("'")
StripQuote(s) == RStripQuote(LStripQuote(s))

\* bytes.hex() of the latin1 encoding, two hex digits per character
HexOf(c) == IF c = "'" THEN <<"2", "7">> ELSE IF c = "a" THEN <<"6", "1">>
            ELSE IF c = "b" THEN <<"6", "2">> ELSE <<"4", "e">>
RECURSIVE Hex(_)
Hex(s) == IF s = <<>> THEN <<>> ELSE HexOf(Head(s)) \o Hex(Tail(s))

\* lines 268-269: the b'...' wrapper is removed
UnwrapBytesLiteral(s) ==
  IF Len(s) >= 2 /\ SubSeq(s, 1, 2) = <<"b", "'">> /\ s[Len(s)] = "'"
  THEN SubSeq(s, 3, Len(s) - 1)
  ELSE s

\* lines 298-301: clean_val = raw_value.strip("'"); f"'{clean_val}'"
FormatOrdinary(chars) == Quoted(StripQuote(chars))

\* lines 258-303
format_value(v, col) ==
  IF v.type = "None" \/ v = PyVal("str", NULL) THEN NULL
  ELSE IF col = "ATTACHMENT_BODY"
  THEN IF v.type = "str"
       THEN <<"CONVERT(varbinary(max), 0x">> \o Hex(UnwrapBytesLiteral(v.text)) \o <<")">>
       ELSE <<"CONVERT(varbinary(max), '">> \o v.text \o <<"')">>
  ELSE IF col \in { "CREATED_DATE", "LAST_UPDATED_DATE" }
  THEN IF v.type = "str" /\ v.text \in DateTimeTexts
       THEN Quoted(Strftime(v.text))
       ELSE NULL
  ELSE IF v.type = "str" THEN FormatOrdinary(v.text)
  ELSE v.text

InitFormat ==
  /\ fmt_pc = "called"
  /\ raw_value \in RawValues
  /\ col_name \in ColumnNames
  /\ formatted = <<>>
  /\ IdleGen /\ IdlePop
  /\ IdleChat /\ IdleCtc /\ IdleSum /\ IdleConn /\ IdleDb

CallFormatValue ==
  /\ fmt_pc = "called"
  /\ formatted' = format_value(raw_value, col_name)
  /\ fmt_pc' = "returned"
  /\ UNCHANGED <<raw_value, col_name>>
  /\ UNCHANGED <<genVars, popVars, chatVars, ctcVars, sumVars, connVars, dbVars>>

NextFormat == CallFormatValue

SpecFormat == InitFormat /\ [][NextFormat]_vars

\* ---------------------------------------------------------------------
\* data_pop/database_populator.py: populate_table
\* ---------------------------------------------------------------------
MaxRows == 2
\* col_property.get("max_length", 7), lines 197-200
RowDefaultLength == 7

\* lines 197-200
RowMaxLength(ml) == IF ml = <<>> THEN <<RowDefaultLength>> ELSE ml

\* lines 205-210: the values one column can get
ColumnValues(col) ==
  UNION { generate_fake_property(col.property_type, is_null, RowMaxLength(col.max_length))
          : is_null \in gen_is_null(col.nullable) }

RECURSIVE GenerateRow(_)
\* lines 192-218: the rows _generate_row can build, one value per column
GenerateRow(c) ==
  IF c = <<>> THEN { <<>> }
  ELSE { <<v>> \o rest : v \in ColumnValues(Head(c)), rest \in GenerateRow(Tail(c)) }

RECURSIVE Headers(_, _)
\* lines 213-214: names not yet in col_headers are appended
Headers(h, c) ==
  IF c = <<>> THEN h
  ELSE Headers(IF \E i \in 1..Len(h) : h[i] = Head(c).name THEN h
               ELSE Append(h, Head(c).name), Tail(c))

RECURSIVE TriggerConns(_, _)
\* lines 237-246: _log_column_info calls get_triggers once per column and
\* swallows what it raises; each call may open a connection and closes
\* self.connection
TriggerConns(c, k) ==
  IF k = 0 THEN { c }
  ELSE UNION { { c1, [Append(c1, NewConn(connection_string, "get_triggers", ""))
                       EXCEPT ![self_connection].open = FALSE] }
               : c1 \in TriggerConns(c, k - 1) }

\* lines 305-325: the headers and the formatted rows of the INSERT statement
create_query(headers, values) ==
  [headers |-> headers,
   values |-> [i \in 1..Len(values) |->
                 [j \in 1..Len(values[i]) |-> format_value(values[i][j], headers[j])]]]

\* populate_table is called, line 139
PopulateTable ==
  /\ pop_pc \in { "idle", "returned", "raised" }
  /\ db_pc = "ready"
  /\ \E n \in 0..MaxRows : num_rows' = n
  /\ cols' = <<>> /\ rows' = <<>> /\ col_headers' = <<>>
  /\ mark' = Len(executed)
  /\ pop_pc' = "get_structure"
  /\ UNCHANGED <<genVars, fmtVars, chatVars, ctcVars, sumVars, connVars, dbVars>>

\* line 149
PopGetStructure ==
  /\ pop_pc = "get_structure"
  /\ MetadataBody("get_table_data_structure", TRUE)
  /\ IF db_result'.outcome = "returned"
     THEN cols' = db_result'.value /\ pop_pc' = "generate"
     ELSE cols' = cols /\ pop_pc' = "raised"
  /\ UNCHANGED <<num_rows, rows, col_headers, mark>>
  /\ UNCHANGED <<genVars, fmtVars, chatVars, ctcVars, sumVars, connVars>>

\* lines 154-156: one turn of the loop
PopGenerateRow ==
  /\ pop_pc = "generate"
  /\ Len(rows) < num_rows
  /\ \E row \in GenerateRow(cols), c \in TriggerConns(conns, Len(cols)) :
       /\ conns' = c
       /\ IF \E j \in 1..Len(row) : row[j].type = "ValueError"
          THEN pop_pc' = "raised" /\ UNCHANGED <<rows, col_headers>>
          ELSE /\ rows' = Append(rows, row)
               /\ col_headers' = Headers(col_headers, cols)
               /\ UNCHANGED pop_pc
  /\ UNCHANGED <<num_rows, cols, mark>>
  /\ UNCHANGED <<db_pc, connection_string, self_connection, db_result, printed,
                 executed, db_error, fetched_rows>>
  /\ UNCHANGED <<genVars, fmtVars, chatVars, ctcVars, sumVars, connVars>>

\* lines 159-162
PopExecuteQuery ==
  /\ pop_pc = "generate"
  /\ Len(rows) = num_rows
  /\ ExecuteQueryBody(create_query(col_headers, rows), 0)
  /\ pop_pc' = IF db_result'.outcome = "returned" THEN "returned"
               ELSE IF db_result'.outcome = "SystemExit" THEN "exited"
               ELSE "raised"
  /\ UNCHANGED <<num_rows, cols, rows, col_headers, mark>>
  /\ UNCHANGED <<genVars, fmtVars, chatVars, ctcVars, sumVars, connVars>>

NextPopulate ==
  \/ DbConstruct \/ PopulateTable \/ PopGetStructure \/ PopGenerateRow
  \/ PopExecuteQuery

SpecPopulate == InitDatabase /\ [][NextPopulate]_vars

\* ---------------------------------------------------------------------
\* Properties of the chat clients
\* ---------------------------------------------------------------------
\* C1: in sse_client.main every response with stop reason tool_use leads to one
\* invocation of the tool of its tool-use block, the model is called again, and
\* a user line is awaited only after a response that does not indicate tool use.
C1_ToolUseRoundTrip ==
  prog = "sse" =>
    /\ pc \in {"sse_input", "sse_loop", "cleanup", "done"} => Len(invoked) = toolUses
    /\ pc = "sse_input" => llm_response.stop_reason # "tool_use"
    /\ pc = "sse_await_tool" =>
         \E i \in 1..Len(llm_response.content) :
           /\ llm_response.content[i].type = "tool_use"
           /\ invoked[Len(invoked)] = [name |-> llm_response.content[i].name,
                                        input |-> llm_response.content[i].input]

\* C2: in both chat loops at most one request (model call or tool RPC call) is
\* outstanding at any time.
C2_OneOutstanding == Cardinality(inflight) <= 1

\* a model call issued after a tool call has completed
C2_Witness ==
  /\ invoked # <<>>
  /\ \E r \in inflight : r.kind = "model" /\ r.id >= 2

\* the messages of the transcript carry increasing occurrence stamps
InChatOrder(msgs) == \A i, j \in 1..Len(msgs) : i < j => msgs[i].at < msgs[j].at

\* C3: the transcript of sse_client.main is append-only: every step keeps the
\* messages already there in place and adds only at the end, so the transcript
\* is in the order in which the messages occurred.
C3_TranscriptAppendOnly ==
  /\ [](prog = "sse" => InChatOrder(messages))
  /\ [][prog = "sse" => IsPrefix(messages, messages')]_vars

\* a transcript holding the prompt, a reply, a tool result and a later user line
C3_Witness ==
  /\ prog = "sse"
  /\ Len(messages) >= 5
  /\ \E i \in 1..Len(messages) : messages[i].kind = "tool_result"
  /\ messages[Len(messages)].kind = "user"

\* C4: in MCPClient.chat_loop every model call passes all earlier user messages
\* and model replies of the conversation, in order, the initial prompt included.
C4_FullTranscriptSent ==
  (prog = "ind" /\ pc = "ind_await_llm") => IsSubseq(history, sent)

\* C5: in MCPClient.chat_loop, after a tool result is appended the model is
\* called again before the next user line is read.
C5_ModelCalledAfterTool ==
  ~ ( /\ prog = "ind"
      /\ pc = "ind_input"
      /\ messages # <<>>
      /\ messages[Len(messages)].kind = "tool_result" )

\* ---------------------------------------------------------------------
\* Properties of check_tool_call and summarize_document
\* ---------------------------------------------------------------------
\* C6: check_tool_call returns the tool-use block of the response whenever the
\* stop reason is tool_use, wherever the block sits, and False otherwise.
C6_ReturnsToolUseBlock ==
  ctc_pc = "returned" =>
    IF response.stop_reason = "tool_use"
    THEN /\ ctc_result.type = "tool_use"
         /\ \E i \in 1..Len(response.content) : response.content[i] = ctc_result
    ELSE ctc_result = FalseVal

\* position of the first opening tag, and of the first closing tag after it
FirstOpen(text) ==
  CHOOSE i \in 1..Len(text) : text[i] = OpenTag /\ \A k \in 1..(i - 1) : text[k] # OpenTag
FirstCloseAfter(text, i) ==
  CHOOSE j \in (i + 1)..Len(text) :
    text[j] = CloseTag /\ \A k \in (i + 1)..(j - 1) : text[k] # CloseTag
HasOpenThenClose(text) ==
  \E i, j \in 1..Len(text) : i < j /\ text[i] = OpenTag /\ text[j] = CloseTag

\* C7: for a reply with an opening tag followed by a closing tag,
\* summarize_document returns exactly the text between the first opening tag
\* and the first closing tag after it.
C7_ExtractsBetweenTags ==
  (sum_pc = "returned" /\ HasOpenThenClose(reply_text)) =>
    LET i == FirstOpen(reply_text)
        j == FirstCloseAfter(reply_text, i)
    IN summary = [raised |-> "none", value |-> SubSeq(reply_text, i + 1, j - 1)]

\* ---------------------------------------------------------------------
\* Properties of connect_to_server
\* ---------------------------------------------------------------------
HasDotPyExtension(path) ==
  /\ Len(path) >= 3
  /\ path[Len(path) - 2] = "." /\ path[Len(path) - 1] = "p" /\ path[Len(path)] = "y"

\* C8: for every path that does not end with .py connect_to_server raises
\* ValueError, opens no transport, creates no session and leaves the tool
\* list unchanged.
C8_RejectsNonPython ==
  (conn_pc # "start" /\ ~HasDotPyExtension(server_script_path)) =>
    /\ conn_pc = "raised" /\ raised = "ValueError"
    /\ exit_stack = <<>>
    /\ session = "unset"
    /\ tools = <<>>

\* a path ending in "py" without the dot was rejected
C8_Witness ==
  /\ conn_pc = "raised" /\ raised = "ValueError"
  /\ Len(server_script_path) >= 3
  /\ server_script_path[Len(server_script_path)] = "y"
  /\ server_script_path[Len(server_script_path) - 1] = "p"
  /\ server_script_path[Len(server_script_path) - 2] # "."

\* ---------------------------------------------------------------------
\* Properties of DatabaseConnection
\* ---------------------------------------------------------------------
\* C9: every connection opened by a metadata method is closed by the time the
\* method returns, on the success path and on the error path.
C9_MetadataConnectionsClosed ==
  \A i \in 1..Len(conns) : conns[i].by \in MetadataMethods => ~conns[i].open

\* the connection string names database d
SelectsDatabase(cs, d) ==
  \E i \in 1..(Len(cs) - 1) : cs[i] = "DATABASE=" /\ cs[i + 1] = d

\* C10: get_connection(database) with a non-empty name opens a connection
\* whose connection string selects that database, whether or not the object
\* was constructed with an initial database.
C10_ConnectionSelectsDatabase ==
  \A i \in 1..Len(conns) :
    (conns[i].by = "get_connection" /\ conns[i].requested # "") =>
      SelectsDatabase(conns[i].conn_str, conns[i].requested)

\* ---------------------------------------------------------------------
\* Properties of fake_data_generator
\* ---------------------------------------------------------------------
\* C12: generate_fake_property raises ValueError for every property type outside
\* the supported set, whether the column is nullable or not.
C12_UnsupportedTypeRaises ==
  (gen_pc = "returned" /\ property_type \notin SupportedTypes)
    => fake_property.type = "ValueError"

\* C13: for a column that is not nullable gen_is_null returns only False, and
\* generate_fake_property never returns the string NULL for a supported type.
C13_NonNullableNeverNull ==
  /\ ~nullable => gen_is_null(nullable) = { FALSE }
  /\ (gen_pc = "returned" /\ ~nullable /\ property_type \in SupportedTypes)
       => fake_property # PyVal("str", NULL)
\* a non-nullable string column whose generated letters spell NULL
C13_Witness ==
  /\ gen_pc = "returned" /\ ~nullable /\ property_type = "varchar"
  /\ fake_property = PyVal("str", Quoted(NULL))

\* the text between the enclosing quotes of a generated string value
Inner(v) == SubSeq(v.text, 2, Len(v.text) - 1)
\* C14: for the string types and max_length >= 1 the text between the quotes has
\* length 1..max_length; for max_length None or -1 the bound is 25.
C14_StringLengthBounded ==
  (gen_pc = "returned" /\ property_type \in StringTypes
     /\ fake_property # PyVal("str", NULL))
    => /\ fake_property.type = "str"
       /\ Len(fake_property.text) >= 2
       /\ Head(fake_property.text) = "'"
       /\ fake_property.text[Len(fake_property.text)] = "'"
       /\ (max_length # <<>> /\ max_length[1] >= 1)
            => (Len(Inner(fake_property)) >= 1
                /\ Len(Inner(fake_property)) <= max_length[1])
       /\ (max_length = <<>> \/ max_length = <<-1>>)
            => (Len(Inner(fake_property)) >= 1
                /\ Len(Inner(fake_property)) <= 25)
\* a string as long as its column allows, and one of 25 letters for None
C14_Witness ==
  /\ gen_pc = "returned" /\ property_type = "text" /\ max_length = <<>>
  /\ fake_property.type = "str" /\ Len(fake_property.text) = 27

\* ---------------------------------------------------------------------
\* Properties of create_query
\* ---------------------------------------------------------------------
RECURSIVE QuotesEscaped(_)
\* every single quote of s is one of a pair of adjacent quotes
QuotesEscaped(s) ==
  IF s = <<>> THEN TRUE
  ELSE IF Head(s) = "'"
  THEN Len(s) >= 2 /\ s[2] = "'" /\ QuotesEscaped(SubSeq(s, 3, Len(s)))
  ELSE QuotesEscaped(Tail(s))
IsQuotedLiteral(s) ==
  /\ Len(s) >= 2 /\ Head(s) = "'" /\ s[Len(s)] = "'"
  /\ QuotesEscaped(SubSeq(s, 2, Len(s) - 1))

\* C15: format_value turns None and 'NULL' into the unquoted NULL, and every
\* other string of an ordinary column into one single-quoted literal whose inner
\* single quotes are all escaped.
C15_ValuesFormattedSafely ==
  fmt_pc = "returned" =>
    /\ (raw_value.type = "None" \/ raw_value = PyVal("str", NULL)) => formatted = NULL
    /\ (raw_value.type = "str" /\ raw_value # PyVal("str", NULL) /\ col_name = "c1")
         => IsQuotedLiteral(formatted)

\* ---------------------------------------------------------------------
\* Properties of execute_query and populate_table
\* ---------------------------------------------------------------------
\* C16: when query execution fails with a database error, execute_query prints
\* the error and the query and returns None to its caller.
C16_DatabaseErrorReturnsNone ==
  (db_result.method = "execute_query" /\ db_error = "pyodbc.Error")
    => /\ Len(printed) = 2 /\ printed[1] = "Query execution error"
       /\ printed[2] \in Queries
       /\ db_result.outcome = "returned" /\ db_result.value = <<>>

\* C11: a populate_table(num_rows, ...) call returns num_rows rows, each with one
\* value per column of the table structure, after executing exactly one insert
\* query that carries those rows.
C11_PopulateReturnsRows ==
  pop_pc \in { "returned", "raised", "exited" } =>
    /\ pop_pc = "returned"
    /\ Len(rows) = num_rows
    /\ \A i \in 1..Len(rows) : Len(rows[i]) = Len(cols)
    /\ Len(executed) = mark + 1
    /\ executed[Len(executed)] = create_query(col_headers, rows)

\* ---------------------------------------------------------------------
\* Properties of error handling and of the run of main
\* ---------------------------------------------------------------------
\* C17: check_tool_call never raises; when inspecting the response raises, the
\* error message is printed, None is returned, and main, as for "no tool
\* call", invokes no tool and goes on to read the next user line.
C17_CheckToolCallNeverRaises ==
  ctc_pc = "returned" =>
    /\ ctc_result.type # "raise"
    /\ CheckToolCallTry(response).exc # "none" =>
         /\ ctc_result = NoneVal
         /\ \E i \in 1..Len(ctc_printed) : ctc_printed[i] = "Error checking tool call"
         /\ ctc_next = "sse_input"
\* a response flagged tool_use with a single block: content[1] raises IndexError
C17_Witness ==
  /\ ctc_pc = "returned"
  /\ CheckToolCallTry(response).exc = "IndexError"
  /\ ctc_result = NoneVal /\ ctc_next = "sse_input"

RequestErrors == { "APIError", "McpError" }
\* C18: once a model call or a tool call has raised, main is in or past its
\* finally block and no request is issued any more: no retry, no further model
\* or tool call.
C18_NoRetryAfterRaise ==
  [][ raised' \in RequestErrors =>
        /\ pc' \in { "cleanup", "done" }
        /\ raised \in RequestErrors =>
             (nCalls' = nCalls /\ invoked' = invoked /\ inflight' \subseteq inflight) ]_vars
\* a tool call raised after the model had been called, and main has ended
C18_Witness ==
  /\ prog = "sse" /\ pc = "done" /\ raised = "McpError"
  /\ Len(invoked) >= 1 /\ nCalls >= 1

C20_EmptyLineReadsNext ==
  (pc \in { "sse_loop", "ind_loop" } /\ user_message = <<>>)
    ~> (pc \in { "sse_input", "ind_input" })

\* the metadata methods C21 names
ListingMethods ==
  { "get_all_databases", "get_tables_by_database", "get_schemas_by_database",
    "get_tables_by_schema", "get_table_data_structure", "get_triggers" }
\* the name an entry of a returned list carries
EntryName(method, e) ==
  IF method = "get_table_data_structure" THEN e.name
  ELSE IF method = "get_triggers" THEN e.TriggerName
  ELSE e
\* C21: a call of one of the six metadata methods returns, without raising: an
\* empty list when a database error occurred, and otherwise one entry per
\* fetched row, in the order of the rows.
C21_MetadataReturnsList ==
  db_result.method \in ListingMethods =>
    /\ db_result.outcome = "returned"
    /\ db_error = "pyodbc.Error" => db_result.value = <<>>
    /\ db_error = "none" =>
         /\ Len(db_result.value) = Len(fetched_rows)
         /\ \A i \in 1..Len(fetched_rows) :
              EntryName(db_result.method, db_result.value[i]) = fetched_rows[i][1]

====
